---- MODULE Spec2Model ----
(***************************************************************************)
(* Model of the Excel document provider                                    *)
(* (apps/api/native/src/document/providers/excel.rs).                      *)
(*                                                                         *)
(* parse_buffer opens a workbook from a byte buffer, walks its sheets in   *)
(* the decoder's order, turns every readable sheet into at most one table  *)
(* (parse_sheet_to_table) and returns the Document holding those tables.   *)
(*                                                                         *)
(* The workbook decoder (calamine) is outside the repository.  Its answers *)
(* are the input of the model: `data` says whether the buffer opens and,   *)
(* for every sheet in sheet_names order, whether worksheet_range succeeds  *)
(* and which grid of typed cells it yields.  A grid is what range.rows()    *)
(* hands out: no row at all for an empty range, otherwise rows of one      *)
(* common width of at least one cell.  The test `!cells.is_empty()` of the *)
(* row loop is modelled as written, although no such grid has a row        *)
(* without cells.                                                          *)
(*                                                                         *)
(* Float and DateTime cells carry a number of hundredths; both are written *)
(* as Rust writes an f64 (ExcelDateTime displays its serial value).        *)
(*                                                                         *)
(* Texts are TLA+ strings.  A raw cell is a record [tag, v]:               *)
(*   Int(i)          [tag |-> "Int",         v |-> i]                      *)
(*   Float(f)        [tag |-> "Float",       v |-> h]   f = h / 100        *)
(*   String(s)       [tag |-> "String",      v |-> s]                      *)
(*   Bool(b)         [tag |-> "Bool",        v |-> b]                      *)
(*   DateTime(dt)    [tag |-> "DateTime",    v |-> h]   serial = h / 100   *)
(*   DateTimeIso(s)  [tag |-> "DateTimeIso", v |-> s]                      *)
(*   DurationIso(s)  [tag |-> "DurationIso", v |-> s]                      *)
(*   Error(e)        [tag |-> "Error",       v |-> e]   e the variant name *)
(*   Empty           [tag |-> "Empty"]                                     *)
(***************************************************************************)
EXTENDS Integers, Sequences, FiniteSets, TLC

VARIABLES
  data,          \* the decoder's view of the byte buffer (the input)
  pc,            \* position in parse_buffer: "open", "sheets", "rows", "done"
  s,             \* position of the `for sheet_name in sheet_names` loop
  blocks,        \* parse_buffer's `blocks`
  range,         \* the grid of the sheet being normalized (`range.rows()`)
  r,             \* position of the `for row in rows` loop
  table_rows,    \* parse_sheet_to_table's `table_rows`
  is_first_row,  \* parse_sheet_to_table's `is_first_row`
  result         \* what parse_buffer returned

vars == <<data, pc, s, blocks, range, r, table_rows, is_first_row, result>>

-----------------------------------------------------------------------------
(* Bounds of the explored inputs.                                          *)

MaxSheets == 2     \* sheets of a workbook (Spec)
WbMaxRows == 2     \* rows of a sheet (Spec)
WbMaxCells == 2    \* cells of a sheet, all rows together (Spec)
MaxRows == 2       \* rows of the sheet (SpecSheet)
MaxCells == 4      \* cells of the sheet, all rows together (SpecSheet)
IntBound == 12     \* Int cells range over -IntBound..IntBound (SpecCell)
FloatBound == 5    \* Float and DateTime cells: tenths in -FloatBound..FloatBound
MaxStrLen == 2     \* length of the text of a cell (SpecCell)

-----------------------------------------------------------------------------
(* Raw cell values.                                                        *)

DataInt(i) == [tag |-> "Int", v |-> i]
DataFloat(h) == [tag |-> "Float", v |-> h]
DataString(str) == [tag |-> "String", v |-> str]
DataBool(b) == [tag |-> "Bool", v |-> b]
DataDateTime(h) == [tag |-> "DateTime", v |-> h]
DataDateTimeIso(str) == [tag |-> "DateTimeIso", v |-> str]
DataDurationIso(str) == [tag |-> "DurationIso", v |-> str]
DataError(e) == [tag |-> "Error", v |-> e]
DataEmpty == [tag |-> "Empty"]

CellErrorTypes == {"Div0", "NA", "Name", "Null", "Num", "Ref", "Value", "GettingData"}

Chars == {"a", "7", " "}

RECURSIVE StringsUpTo(_)
StringsUpTo(n) ==
  IF n = 0 THEN {""}
  ELSE LET shorter == StringsUpTo(n - 1)
       IN  shorter \cup {str \o c : str \in shorter, c \in Chars}

\* Float payloads: hundredths, so that both one and two decimals occur.
Hundredths == {10 * t : t \in -FloatBound..FloatBound} \cup {314, -314, 25, -5}

AllCells ==
  {DataInt(i) : i \in -IntBound..IntBound}
    \cup {DataFloat(h) : h \in Hundredths}
    \cup {DataString(str) : str \in StringsUpTo(MaxStrLen)}
    \cup {DataBool(b) : b \in BOOLEAN}
    \cup {DataDateTime(h) : h \in Hundredths}
    \cup {DataDateTimeIso(str) : str \in StringsUpTo(MaxStrLen)}
    \cup {DataDurationIso(str) : str \in StringsUpTo(MaxStrLen)}
    \cup {DataError(e) : e \in CellErrorTypes}
    \cup {DataEmpty}

SheetCells ==
  {DataString("Name"), DataString(""), DataInt(42), DataBool(TRUE), DataDateTimeIso("2024-01-01"),
   DataDurationIso("PT1H"), DataError("Div0"), DataEmpty}

WbCells == {DataString("Name"), DataInt(42)}

-----------------------------------------------------------------------------
(* The inputs: grids, sheets and workbooks.                                *)

\* The shapes of a range: no row, or rows of one width of at least one cell.
Shapes(maxRows, maxCells) ==
  {[rows |-> 0, width |-> 0]}
    \cup {sh \in [rows : 1..maxRows, width : 1..maxCells] :
            sh.rows * sh.width <= maxCells}

\* The cells of a shape, row after row.
FlatCells(cells, sh) == [1..(sh.rows * sh.width) -> cells]

\* range.rows(): the cells cut into rows of the width of the range.
Split(flat, sh) ==
  [i \in 1..sh.rows |-> [k \in 1..sh.width |-> flat[(i - 1) * sh.width + k]]]

Grids(cells, maxRows, maxCells) ==
  UNION {{Split(flat, sh) : flat \in FlatCells(cells, sh)}
         : sh \in Shapes(maxRows, maxCells)}

\* What worksheet_range answers for one sheet: Err, or Ok(grid).
Sheets(cells, maxRows, maxCells) ==
  {[ok |-> FALSE]}
    \cup {[ok |-> TRUE, grid |-> g] : g \in Grids(cells, maxRows, maxCells)}

\* A buffer either fails to open or opens as a sequence of sheets.
Workbooks(cells, maxSheets, maxRows, maxCells) ==
  {[valid |-> FALSE]}
    \cup {[valid |-> TRUE, sheets |-> sh] :
            sh \in UNION {[1..n -> Sheets(cells, maxRows, maxCells)]
                          : n \in 0..maxSheets}}

-----------------------------------------------------------------------------
(* data_to_string and row_contains_text.                                   *)

Digit(d) == SubSeq("0123456789", d + 1, d + 1)

\* <unsigned integer>::to_string
RECURSIVE NatToString(_)
NatToString(n) ==
  IF n < 10 THEN Digit(n) ELSE NatToString(n \div 10) \o Digit(n % 10)

\* Mutant of IntToString: the sign is lost.
IntToStringUnsigned(i) == IF i < 0 THEN NatToString(-i) ELSE NatToString(i)

\* i64::to_string
IntToString(i) == IF i < 0 THEN "-" \o NatToString(-i) ELSE NatToString(i)

\* f64::to_string of h / 100: the shortest decimal that reads back as the
\* same value, without exponent, without a fraction when it is integral.
FloatToString(h) ==
  LET a == IF h < 0 THEN -h ELSE h
      whole == a \div 100
      frac == a % 100
      sign == IF h < 0 THEN "-" ELSE ""
  IN  sign \o NatToString(whole) \o
        (IF frac = 0 THEN ""
         ELSE IF frac % 10 = 0 THEN "." \o Digit(frac \div 10)
         ELSE "." \o Digit(frac \div 10) \o Digit(frac % 10))

BoolToString(b) == IF b THEN "true" ELSE "false"

DataToString(cell) ==
  CASE cell.tag = "Int" -> IntToString(cell.v)
    [] cell.tag = "Float" -> FloatToString(cell.v)
    [] cell.tag = "String" -> cell.v
    [] cell.tag = "Bool" -> BoolToString(cell.v)
    [] cell.tag = "DateTime" -> FloatToString(cell.v)
    [] cell.tag = "DateTimeIso" -> cell.v
    [] cell.tag = "DurationIso" -> cell.v
    [] cell.tag = "Error" -> "Error: " \o cell.v
    [] cell.tag = "Empty" -> ""

\* Mutant of RowContainsText: every variant that carries a text counts.
RowContainsAnyText(row) ==
  \E k \in 1..Len(row) : row[k].tag \in {"String", "DateTimeIso", "DurationIso", "Error"}

RowContainsText(row) == \E k \in 1..Len(row) : row[k].tag = "String"

-----------------------------------------------------------------------------
(* The document model values the provider builds.                          *)

Paragraph(text) ==
  [kind |-> "Normal", inlines |-> <<[type |-> "Text", text |-> text]>>]

TableCell(cell) ==
  [blocks |-> <<[type |-> "Paragraph", paragraph |-> Paragraph(DataToString(cell))]>>,
   colspan |-> 1,
   rowspan |-> 1]

\* Mutant of RowCells: Empty cells produce no TableCell.
RowCellsWithoutEmpty(row) ==
  LET full == SelectSeq(row, LAMBDA cell : cell.tag # "Empty")
  IN  [k \in 1..Len(full) |-> TableCell(full[k])]

\* row.iter().map(|cell| ...).collect()
RowCells(row) == [k \in 1..Len(row) |-> TableCell(row[k])]

\* Mutant of RowIsKept: a row whose cells all have an empty text is dropped.
RowHasText(cells) ==
  \E k \in 1..Len(cells) : cells[k].blocks[1].paragraph.inlines[1].text # ""

\* !cells.is_empty()
RowIsKept(cells) == Len(cells) > 0

\* The kind given to a kept row.
RowKind(flag, row) == IF flag /\ RowContainsText(row) THEN "Header" ELSE "Body"

\* is_first_row after a row: both branches of a kept row clear it, a
\* skipped row leaves it alone.
NextIsFirstRow(flag, cells) == IF RowIsKept(cells) THEN FALSE ELSE flag

TableBlock(rows) == [type |-> "Table", table |-> [rows |-> rows]]

Document(bs) ==
  [blocks |-> bs, metadata |-> "default", notes |-> <<>>, comments |-> <<>>]

-----------------------------------------------------------------------------
(* parse_buffer, one action per step.                                      *)

InitOn(workbooks) ==
  /\ data \in workbooks
  /\ pc = "open"
  /\ s = 1
  /\ blocks = <<>>
  /\ range = <<>>
  /\ r = 1
  /\ table_rows = <<>>
  /\ is_first_row = TRUE
  /\ result = [tag |-> "Pending"]

\* open_workbook_auto_from_rs(cursor)?  and the set-up of the sheet loop.
OpenWorkbook ==
  /\ pc = "open"
  /\ IF data.valid
       THEN /\ pc' = "sheets"
            /\ result' = result
       ELSE /\ pc' = "done"
            /\ result' = [tag |-> "Err"]
  /\ s' = 1
  /\ blocks' = <<>>
  /\ UNCHANGED <<data, range, r, table_rows, is_first_row>>

\* Mutant of ReadSheet: the first-row flag survives from the previous sheet.
ReadSheetKeepingFlag ==
  /\ pc = "sheets"
  /\ s <= Len(data.sheets)
  /\ data.sheets[s].ok
  /\ range' = data.sheets[s].grid
  /\ table_rows' = <<>>
  /\ r' = 1
  /\ pc' = "rows"
  /\ UNCHANGED <<data, s, blocks, is_first_row, result>>

\* worksheet_range succeeded: enter parse_sheet_to_table.
ReadSheet ==
  /\ pc = "sheets"
  /\ s <= Len(data.sheets)
  /\ data.sheets[s].ok
  /\ range' = data.sheets[s].grid
  /\ table_rows' = <<>>
  /\ is_first_row' = TRUE
  /\ r' = 1
  /\ pc' = "rows"
  /\ UNCHANGED <<data, s, blocks, result>>

\* Mutant of SkipSheet: a failing sheet ends the loop over the sheets.
SkipSheetAndTheRest ==
  /\ pc = "sheets"
  /\ s <= Len(data.sheets)
  /\ ~data.sheets[s].ok
  /\ s' = Len(data.sheets) + 1
  /\ UNCHANGED <<data, pc, blocks, range, r, table_rows, is_first_row, result>>

\* worksheet_range failed: the sheet is passed over.
SkipSheet ==
  /\ pc = "sheets"
  /\ s <= Len(data.sheets)
  /\ ~data.sheets[s].ok
  /\ s' = s + 1
  /\ UNCHANGED <<data, pc, blocks, range, r, table_rows, is_first_row, result>>

\* One iteration of `for row in rows`.
ProcessRow ==
  /\ pc = "rows"
  /\ r <= Len(range)
  /\ LET row == range[r]
         cells == RowCells(row)
     IN  /\ table_rows' =
              IF RowIsKept(cells)
                THEN Append(table_rows,
                            [cells |-> cells, kind |-> RowKind(is_first_row, row)])
                ELSE table_rows
         /\ is_first_row' = NextIsFirstRow(is_first_row, cells)
  /\ r' = r + 1
  /\ UNCHANGED <<data, pc, s, blocks, range, result>>

\* Mutant of FinishSheet: the table is pushed even when it has no row.
FinishSheetAlwaysPush ==
  /\ pc = "rows"
  /\ r > Len(range)
  /\ blocks' = Append(blocks, TableBlock(table_rows))
  /\ s' = s + 1
  /\ pc' = "sheets"
  /\ UNCHANGED <<data, range, r, table_rows, is_first_row, result>>

\* The end of parse_sheet_to_table and the push of its table.
FinishSheet ==
  /\ pc = "rows"
  /\ r > Len(range)
  /\ blocks' = IF table_rows = <<>> THEN blocks
               ELSE Append(blocks, TableBlock(table_rows))
  /\ s' = s + 1
  /\ pc' = "sheets"
  /\ UNCHANGED <<data, range, r, table_rows, is_first_row, result>>

\* Mutant of ReturnDocument: a workbook without any table is an error.
ReturnDocumentOrError ==
  /\ pc = "sheets"
  /\ s > Len(data.sheets)
  /\ result' = IF blocks = <<>> THEN [tag |-> "Err"]
               ELSE [tag |-> "Ok", document |-> Document(blocks)]
  /\ pc' = "done"
  /\ UNCHANGED <<data, s, blocks, range, r, table_rows, is_first_row>>

\* Ok(Document { blocks, metadata, notes, comments })
ReturnDocument ==
  /\ pc = "sheets"
  /\ s > Len(data.sheets)
  /\ result' = [tag |-> "Ok", document |-> Document(blocks)]
  /\ pc' = "done"
  /\ UNCHANGED <<data, s, blocks, range, r, table_rows, is_first_row>>

Next ==
  \/ OpenWorkbook
  \/ ReadSheet
  \/ SkipSheet
  \/ ProcessRow
  \/ FinishSheet
  \/ ReturnDocument

\* Workbooks of several small sheets.
Init == InitOn(Workbooks(WbCells, MaxSheets, WbMaxRows, WbMaxCells))
Spec == Init /\ [][Next]_vars

\* One sheet, rows of mixed cells.
InitSheet ==
  \/ InitOn(Workbooks(SheetCells, 1, 0, 0))
  \/ \E sh \in Shapes(MaxRows, MaxCells) : \E flat \in FlatCells(SheetCells, sh) :
       InitOn({[valid |-> TRUE,
                sheets |-> <<[ok |-> TRUE, grid |-> Split(flat, sh)]>>]})
SpecSheet == InitSheet /\ [][Next]_vars

\* One cell, every kind of raw value.
InitCell == InitOn(Workbooks(AllCells, 1, 1, 1))
SpecCell == InitCell /\ [][Next]_vars

-----------------------------------------------------------------------------
(* Vocabulary of the properties.                                           *)

HasCells(row) == Len(row) > 0

\* The source rows that have at least one cell, in source order.
CellRows(grid) == SelectSeq(grid, HasCells)

\* The source rows the row loop has passed.
RowsSeen == SubSeq(range, 1, r - 1)

HasStringCell(row) == Cardinality({k \in DOMAIN row : row[k].tag = "String"}) >= 1

CellText(tc) == tc.blocks[1].paragraph.inlines[1].text

\* The first sheet was read and parse_sheet_to_table has returned for it:
\* `blocks` holds what this sheet contributed and nothing else.
FirstSheetDone == pc = "sheets" /\ s = 2 /\ data.sheets[1].ok

\* The sheet before position s was read and its table is complete.
SheetFinished ==
  /\ pc \in {"sheets", "done"}
  /\ data.valid
  /\ s > 1
  /\ data.sheets[s - 1].ok

\* The rows a grid is expected to yield, stated on the grid alone.
ExpectedRows(grid) ==
  LET src == CellRows(grid)
  IN  [j \in 1..Len(src) |->
         [cells |-> [k \in 1..Len(src[j]) |-> TableCell(src[j][k])],
          kind |-> IF j = 1 /\ HasStringCell(src[1]) THEN "Header" ELSE "Body"]]

\* The blocks a sequence of sheets is expected to yield.
RECURSIVE ExpectedBlocks(_)
ExpectedBlocks(sheets) ==
  IF sheets = <<>> THEN <<>>
  ELSE LET n == Len(sheets)
           last == sheets[n]
       IN  ExpectedBlocks(SubSeq(sheets, 1, n - 1)) \o
             (IF last.ok /\ CellRows(last.grid) # <<>>
                THEN <<[type |-> "Table", table |-> [rows |-> ExpectedRows(last.grid)]]>>
                ELSE <<>>)

ExpectedResult(d) ==
  IF d.valid
    THEN [tag |-> "Ok",
          document |-> [blocks |-> ExpectedBlocks(d.sheets), metadata |-> "default",
                        notes |-> <<>>, comments |-> <<>>]]
    ELSE [tag |-> "Err"]

-----------------------------------------------------------------------------
\* C1: the table rows are the source rows that have cells; the first of them
\* is Header exactly when it holds a String cell, every later one is Body.
C1_HeaderIffFirstRowHasString ==
  LET src == CellRows(RowsSeen)
  IN  /\ Len(table_rows) = Len(src)
      /\ \A j \in 1..Len(table_rows) :
           table_rows[j].kind =
             IF j = 1 /\ HasStringCell(src[1]) THEN "Header" ELSE "Body"

\* A Header row followed by a Body row that holds a String cell.
C1_Witness ==
  /\ pc = "done"
  /\ Len(table_rows) = 2
  /\ table_rows[1].kind = "Header"
  /\ table_rows[2].kind = "Body"
  /\ HasStringCell(range[Len(range)])

\* Every row has one or more cells and all of them are Empty.
OnlyEmptyCells(grid) ==
  /\ Len(grid) >= 1
  /\ \A i \in 1..Len(grid) :
       /\ Len(grid[i]) >= 1
       /\ \A k \in 1..Len(grid[i]) : grid[i][k].tag = "Empty"

C4_NoneIffNoCellRow ==
  FirstSheetDone =>
    LET src == CellRows(range)
    IN  IF src = <<>>
          THEN blocks = <<>>
          ELSE /\ Len(blocks) = 1
               /\ blocks[1].type = "Table"
               /\ Len(blocks[1].table.rows) = Len(src)
               /\ \A j \in 1..Len(src) :
                    LET cells == blocks[1].table.rows[j].cells
                    IN  /\ Len(cells) = Len(src[j])
                        /\ \A k \in 1..Len(src[j]) :
                             CellText(cells[k]) = DataToString(src[j][k])

\* Two source rows gave one table of two rows, the second row holding the
\* text of the second source row.
C4_Witness ==
  /\ FirstSheetDone
  /\ Len(range) = 2
  /\ range[1] # range[2]
  /\ Len(blocks) = 1
  /\ Len(blocks[1].table.rows) = 2
  /\ CellText(blocks[1].table.rows[2].cells[1]) = DataToString(range[2][1])

\* C5: once the workbook opened the call returns Ok, and the blocks are, in
\* sheet order, the tables of the sheets that were read and have a row with
\* cells; a failing sheet adds nothing and stops nothing.
C5_BlocksOfReadableSheets ==
  (pc = "done" /\ data.valid) =>
    /\ result.tag = "Ok"
    /\ result.document.blocks = ExpectedBlocks(data.sheets)

\* The first sheet failed and the second one still gave its table.
C5_Witness ==
  /\ pc = "done"
  /\ data.valid
  /\ Len(data.sheets) = 2
  /\ ~data.sheets[1].ok
  /\ data.sheets[2].ok
  /\ Len(result.document.blocks) = 1

\* C6: the call ends in an error, without a Document, exactly when the
\* workbook does not open; nothing after the opening produces an error.
C6_ErrorIffOpenFails ==
  /\ pc = "done" => /\ result.tag = "Err" <=> ~data.valid
                    /\ result.tag = "Ok" <=> data.valid
  /\ pc # "done" => result.tag = "Pending"
  /\ result.tag = "Err" => DOMAIN result = {"tag"}

\* A failing sheet and a sheet without rows, and the call returned Ok.
C6_Witness ==
  /\ pc = "done"
  /\ result.tag = "Ok"
  /\ result.document.blocks = <<>>
  /\ \E i \in 1..Len(data.sheets) : ~data.sheets[i].ok
  /\ \E i \in 1..Len(data.sheets) : data.sheets[i].ok /\ data.sheets[i].grid = <<>>

DigitValue(c) ==
  CASE c = "0" -> 0 [] c = "1" -> 1 [] c = "2" -> 2 [] c = "3" -> 3 [] c = "4" -> 4
    [] c = "5" -> 5 [] c = "6" -> 6 [] c = "7" -> 7 [] c = "8" -> 8 [] c = "9" -> 9
    [] OTHER -> -1

AllDigits(str) ==
  Len(str) >= 1 /\ \A k \in 1..Len(str) : DigitValue(SubSeq(str, k, k)) >= 0

RECURSIVE DigitsValue(_)
DigitsValue(str) ==
  IF Len(str) = 1 THEN DigitValue(str)
  ELSE 10 * DigitsValue(SubSeq(str, 1, Len(str) - 1)) + DigitValue(SubSeq(str, Len(str), Len(str)))

\* text is the decimal writing of i: a minus sign for a negative number, then
\* its digits without a leading zero.
IsDecimalOf(text, i) ==
  LET digits == IF i < 0 THEN SubSeq(text, 2, Len(text)) ELSE text
  IN  /\ i < 0 => (Len(text) >= 2 /\ SubSeq(text, 1, 1) = "-")
      /\ AllDigits(digits)
      /\ Len(digits) > 1 => SubSeq(digits, 1, 1) # "0"
      /\ DigitsValue(digits) = (IF i < 0 THEN -i ELSE i)

StringifiedAs(cell, text) ==
  CASE cell.tag \in {"String", "DateTimeIso", "DurationIso"} -> text = cell.v
    [] cell.tag = "Empty" -> text = ""
    [] cell.tag = "Bool" -> (cell.v /\ text = "true") \/ (~cell.v /\ text = "false")
    [] cell.tag = "Int" -> IsDecimalOf(text, cell.v)
    [] cell.tag = "Error" -> Len(text) > 7 /\ SubSeq(text, 1, 7) = "Error: "
    [] cell.tag \in {"Float", "DateTime"} -> Len(text) >= 1

\* C7: the text of every produced cell is, by the variant of its source cell:
\* the text itself for String, DateTimeIso and DurationIso, the empty text for
\* Empty, "true" or "false" for Bool, the decimal writing for Int, a text
\* that starts with "Error: " for Error; every variant yields a text.
C7_DataToStringByVariant ==
  LET src == CellRows(RowsSeen)
  IN  /\ Len(table_rows) = Len(src)
      /\ \A j \in 1..Len(table_rows) :
           /\ Len(table_rows[j].cells) = Len(src[j])
           /\ \A k \in 1..Len(src[j]) :
                StringifiedAs(src[j][k], CellText(table_rows[j].cells[k]))

\* A negative two-digit Int cell has been turned into its text.
C7_Witness ==
  /\ Len(table_rows) = 1
  /\ range[1] = <<DataInt(-12)>>
  /\ CellText(table_rows[1].cells[1]) = "-12"

\* C8: in a returned Document every block is a Table with at least one row,
\* every row has at least one cell, and notes and comments are empty.
C8_TablesAndRowsNonEmpty ==
  result.tag = "Ok" =>
    /\ \A i \in 1..Len(result.document.blocks) :
         LET b == result.document.blocks[i]
         IN  /\ b.type = "Table"
             /\ Len(b.table.rows) >= 1
             /\ \A j \in 1..Len(b.table.rows) : Len(b.table.rows[j].cells) >= 1
    /\ result.document.notes = <<>>
    /\ result.document.comments = <<>>

\* A Document of one table from a workbook that also had a sheet without rows.
C8_Witness ==
  /\ result.tag = "Ok"
  /\ Len(result.document.blocks) = 1
  /\ Len(data.sheets) = 2
  /\ \E i \in 1..Len(data.sheets) : data.sheets[i].ok /\ data.sheets[i].grid = <<>>

\* C9: a table row has one cell per source cell, in order, and the k-th is
\* one Normal paragraph of one Text, the text of the k-th source cell, with
\* colspan 1 and rowspan 1.
C9_CellsMirrorSourceRow ==
  LET src == CellRows(RowsSeen)
  IN  /\ Len(table_rows) = Len(src)
      /\ \A j \in 1..Len(table_rows) :
           /\ Len(table_rows[j].cells) = Len(src[j])
           /\ \A k \in 1..Len(src[j]) :
                table_rows[j].cells[k] =
                  [blocks |-> <<[type |-> "Paragraph",
                                 paragraph |->
                                   [kind |-> "Normal",
                                    inlines |-> <<[type |-> "Text",
                                                   text |-> DataToString(src[j][k])]>>]]>>,
                   colspan |-> 1,
                   rowspan |-> 1]

\* A row of an Int cell and an Empty cell gave the cells "42" and "".
C9_Witness ==
  /\ Len(table_rows) >= 1
  /\ range[1] = <<DataInt(42), DataEmpty>>
  /\ Len(table_rows[1].cells) = 2
  /\ CellText(table_rows[1].cells[1]) = "42"
  /\ CellText(table_rows[1].cells[2]) = ""

\* C10: every sheet starts with the first-row flag set and an empty table, its
\* rows are those its own grid determines whatever the other sheets held, and
\* the returned value is determined by the workbook.
C10_SheetsAreIndependent ==
  /\ (pc = "rows" /\ r = 1) => (is_first_row /\ table_rows = <<>>)
  /\ SheetFinished => table_rows = ExpectedRows(range)
  /\ pc = "done" => result = ExpectedResult(data)

\* Two sheets, each with a Header row of its own.
C10_Witness ==
  /\ pc = "done"
  /\ result.tag = "Ok"
  /\ Len(result.document.blocks) = 2
  /\ result.document.blocks[1].table.rows[1].kind = "Header"
  /\ result.document.blocks[2].table.rows[1].kind = "Header"

====
